---- MODULE Spec2Model ----
(***************************************************************************)
(* Certificate scoring engine of src/testing.py: the lexical extractors,   *)
(* the issuer resolver, the verification classifier, the feature assembler *)
(* and the tier/score composer.                                            *)
(*                                                                         *)
(* Strings are sequences of one-character strings, so that lower(),        *)
(* substring tests and the two regular expressions are computed character  *)
(* by character.  An optional value (Python's None or a value) is a        *)
(* sequence of length 0 or 1.                                              *)
(*                                                                         *)
(* Numbers are fixed point and the arithmetic is exact (the binary         *)
(* rounding error of Python floats is not modelled):                       *)
(*   - duration_hours is counted in hundredths of an hour;                 *)
(*   - the rep-like signals (issuer_rep, assessment_rigor,                 *)
(*     project_complexity, industry_recognition) are integers;             *)
(*   - a sub-score is counted in units of 1/SubUnit;                       *)
(*   - a weight is counted in hundredths, so the composite and the         *)
(*     unrounded score are counted in units of 1/(SubUnit*WeightUnit);     *)
(*   - the returned score is counted in hundredths (two decimals).         *)
(***************************************************************************)
EXTENDS Integers, Sequences, FiniteSets, TLC

VARIABLES text, verification_link, features, issuer_db, best, op, ret

vars == <<text, verification_link, features, issuer_db, best, op, ret>>

(***************************************************************************)
(* Optional values and dictionaries                                        *)
(***************************************************************************)
None == <<>>

Some(x) == <<x>>

\* dict.get(k, d)
Get(f, k, d) == IF k \in DOMAIN f THEN f[k] ELSE d

\* the dictionary f with key k set to v
With(f, k, v) == [x \in DOMAIN f \cup {k} |-> IF x = k THEN v ELSE f[x]]

Restrict(f, D) == [x \in D |-> f[x]]

(***************************************************************************)
(* Tier calculation                                                        *)
(***************************************************************************)
SubUnit == 200

WeightUnit == 100

ScoreUnit == SubUnit * WeightUnit

\* max(lo, min(hi, x))
clamp_mut_no_upper(x, lo, hi) == IF x < lo THEN lo ELSE x

clamp(x, lo, hi) == IF x < lo THEN lo ELSE IF x > hi THEN hi ELSE x

\* time_score = max(0, min(100, (time_h/200.0)*100)); time_h in hundredths of
\* an hour, so (time_h/100)/200*100 = time_h/SubUnit.
time_score(time_h) == clamp(time_h, 0, 100 * SubUnit)

verify_bonus_mut_inverted(f) == IF Get(f, "verified", FALSE) THEN 0 ELSE 10 * ScoreUnit

verify_bonus(f) == IF Get(f, "verified", FALSE) THEN 10 * ScoreUnit ELSE 0

\* project_score = proj_comp if proj_req else 0
project_score(f) ==
    IF Get(f, "has_project", 0) # 0 THEN Get(f, "project_complexity", 0) * SubUnit ELSE 0

weights_mut_prereq_live ==
    [issuer_rep |-> 35, assessment |-> 25, project |-> 20, time |-> 10,
     industry |-> 10, prereq |-> 5]

weights ==
    [issuer_rep |-> 35, assessment |-> 25, project |-> 20, time |-> 10,
     industry |-> 10, prereq |-> 0]

composite(f) ==
      Get(f, "issuer_rep", 25) * SubUnit * weights.issuer_rep
    + Get(f, "assessment_rigor", 20) * SubUnit * weights.assessment
    + project_score(f) * weights.project
    + time_score(Get(f, "duration_hours", 0)) * weights.time
    + Get(f, "industry_recognition", 20) * SubUnit * weights.industry
    + (Get(f, "prerequisites_required", 0) * 100) * SubUnit * weights.prereq
    + verify_bonus(f)

\* the tier chain of lines 181-184, on the unrounded score
tier_of(score) ==
    IF score >= 80 * ScoreUnit THEN 1
    ELSE IF score >= 60 * ScoreUnit THEN 2
    ELSE IF score >= 40 * ScoreUnit THEN 3
    ELSE 4

\* round(score, 2): to the nearest hundredth.  On an exact decimal tie Python
\* follows the binary error of the float; the model takes the even hundredth,
\* and no input of the specifications below produces a tie.
round2(score) ==
    LET q == score \div SubUnit
        r == score % SubUnit
    IN  IF 2 * r > SubUnit \/ (2 * r = SubUnit /\ q % 2 = 1) THEN q + 1 ELSE q

compute_certificate_tier(f, db) ==
    LET score == clamp(composite(f), 0, 100 * ScoreUnit)
    IN  [score |-> round2(score), tier |-> tier_of(score)]

(***************************************************************************)
(* Characters and strings                                                  *)
(***************************************************************************)
UpperCase == <<"A","B","C","D","E","F","G","H","I","J","K","L","M","N","O","P","Q","R","S","T","U","V","W","X","Y","Z">>

LowerCase == <<"a","b","c","d","e","f","g","h","i","j","k","l","m","n","o","p","q","r","s","t","u","v","w","x","y","z">>

Digits == <<"0","1","2","3","4","5","6","7","8","9">>

UpperSet == {UpperCase[i] : i \in DOMAIN UpperCase}

LowerSet == {LowerCase[i] : i \in DOMAIN LowerCase}

DigitSet == {Digits[i] : i \in DOMAIN Digits}

LowerOf == [c \in UpperSet |-> LowerCase[CHOOSE i \in DOMAIN UpperCase : UpperCase[i] = c]]

DigitVal == [c \in DigitSet |-> (CHOOSE i \in DOMAIN Digits : Digits[i] = c) - 1]

LowerChar(c) == IF c \in UpperSet THEN LowerOf[c] ELSE c

\* str.lower()
lower(s) == [i \in 1..Len(s) |-> LowerChar(s[i])]

\* \s of the regular expressions, and the characters str.strip() removes
SpaceSet == {" ", "\t", "\n", "\r", "\f"}

IsSpace(c) == c \in SpaceSet

IsDigit(c) == c \in DigitSet

AlnumSet == DigitSet \cup UpperSet \cup LowerSet

\* [A-Z0-9] under re.IGNORECASE
IsAlnum(c) == c \in AlnumSet

\* \w, the class that decides \b
IsWord(c) == IsAlnum(c) \/ c = "_"

SetMin(S) == CHOOSE x \in S : \A y \in S : x <= y

SetMax(S) == CHOOSE x \in S : \A y \in S : x >= y

\* pat in s
Contains(s, pat) ==
    \E i \in 1..(Len(s) - Len(pat) + 1) : \A j \in 1..Len(pat) : s[i + j - 1] = pat[j]

\* any(k in s for k in keywords), keywords a sequence of strings
ContainsAny(s, keywords) == \E n \in DOMAIN keywords : Contains(s, keywords[n])

\* the lowercase literal pat matches s at position i, ignoring case
MatchesAtCI(s, i, pat) ==
    /\ i + Len(pat) - 1 <= Len(s)
    /\ \A j \in 1..Len(pat) : LowerChar(s[i + j - 1]) = pat[j]

\* length of the longest run of characters of class C that starts at i
RunLen(s, i, C) ==
    IF i > Len(s) THEN 0
    ELSE LET stop == CHOOSE j \in i..(Len(s) + 1) :
                         /\ j = Len(s) + 1 \/ s[j] \notin C
                         /\ \A k \in i..(j - 1) : s[k] \in C
         IN  stop - i

\* length of the longest run of characters outside class C that starts at i
RunLenNot(s, i, C) ==
    IF i > Len(s) THEN 0
    ELSE LET stop == CHOOSE j \in i..(Len(s) + 1) :
                         /\ j = Len(s) + 1 \/ s[j] \in C
                         /\ \A k \in i..(j - 1) : s[k] \notin C
         IN  stop - i

\* str.strip()
strip(s) ==
    LET keep == {i \in 1..Len(s) : ~IsSpace(s[i])}
    IN  IF keep = {} THEN <<>> ELSE SubSeq(s, SetMin(keep), SetMax(keep))

RECURSIVE DigitsValue(_)
\* int() of a sequence of decimal digits
DigitsValue(ds) ==
    IF ds = <<>> THEN 0
    ELSE DigitsValue(SubSeq(ds, 1, Len(ds) - 1)) * 10 + DigitVal[ds[Len(ds)]]

(***************************************************************************)
(* Feature extraction: the verification link                               *)
(***************************************************************************)
\* https?:\/\/[^\s]+ at position i: the length matched, 0 if none
UrlLen(s, i) ==
    LET p == IF MatchesAtCI(s, i, <<"h","t","t","p","s",":","/","/">>) /\ RunLenNot(s, i + 8, SpaceSet) > 0 THEN 8
             ELSE IF MatchesAtCI(s, i, <<"h","t","t","p",":","/","/">>) /\ RunLenNot(s, i + 7, SpaceSet) > 0 THEN 7
             ELSE 0
    IN  IF p = 0 THEN 0 ELSE p + RunLenNot(s, i + p, SpaceSet)

\* \b between positions i-1 and i
WordBoundary(s, i) ==
    LET before == i > 1 /\ i - 1 <= Len(s) /\ IsWord(s[i - 1])
        after == i >= 1 /\ i <= Len(s) /\ IsWord(s[i])
    IN  before # after

\* \b[A-Z0-9]{5,12}\b at position i under re.IGNORECASE: the length matched
\* (the greedy repetition gives back characters until \b holds), 0 if none
CodeLen(s, i) ==
    LET run == RunLen(s, i, AlnumSet)
        ok == {n \in 5..12 : n <= run /\ WordBoundary(s, i + n)}
    IN  IF WordBoundary(s, i) /\ run >= 5 /\ ok # {} THEN SetMax(ok) ELSE 0

\* the alternation: the URL branch is tried first
VerifyMatchLen(s, i) == IF UrlLen(s, i) > 0 THEN UrlLen(s, i) ELSE CodeLen(s, i)

find_verification_link(s) ==
    LET hits == {i \in 1..Len(s) : VerifyMatchLen(s, i) > 0}
    IN  IF hits = {} THEN None
        ELSE LET i == SetMin(hits)
             IN  Some(strip(SubSeq(s, i, i + VerifyMatchLen(s, i) - 1)))

(***************************************************************************)
(* Feature extraction: the time commitment                                 *)
(***************************************************************************)
UNITS == << <<"h","o","u","r","s">>, <<"h","r","s">>, <<"h">>, <<"w","e","e","k","s">>, <<"w","e","e","k">>, <<"m","o","n","t","h","s">>, <<"m","o","n","t","h">> >>

\* (hours|hrs|h|weeks|week|months|month) at position i: the first alternative
\* that matches, 0 if none
UnitAt(s, i) ==
    LET ok == {n \in DOMAIN UNITS : MatchesAtCI(s, i, UNITS[n])}
    IN  IF ok = {} THEN 0 ELSE SetMin(ok)

\* \s*(?:total\s*)?(unit) at position i: the unit matched, 0 if none
TailUnit(s, i) ==
    LET a == i + RunLen(s, i, SpaceSet)
        b == IF MatchesAtCI(s, a, <<"t","o","t","a","l">>) THEN a + 5 + RunLen(s, a + 5, SpaceSet) ELSE a
    IN  IF b # a /\ UnitAt(s, b) > 0 THEN UnitAt(s, b) ELSE UnitAt(s, a)

\* the ends (\d+\.?\d*) can reach from position i
NumberEnds(s, i) ==
    LET d1 == RunLen(s, i, DigitSet)
        dot == i + d1
        d2 == IF dot <= Len(s) /\ s[dot] = "." THEN RunLen(s, dot + 1, DigitSet) ELSE 0
    IN  {i + n - 1 : n \in 1..d1} \cup
        (IF d1 > 0 /\ dot <= Len(s) /\ s[dot] = "." THEN {dot + n : n \in 0..d2} ELSE {})

\* TIME_REGEX at position i: <<end of group 1, unit>>, the longest number first
\* (greedy), or <<>> if the expression does not match here
TimeMatchAt(s, i) ==
    LET ok == {e \in NumberEnds(s, i) : TailUnit(s, e + 1) > 0}
    IN  IF ~IsDigit(s[i]) \/ ok = {} THEN <<>> ELSE <<SetMax(ok), TailUnit(s, SetMax(ok) + 1)>>

\* float(m.group(1)) in hundredths; exact for up to two decimals
to_float(num) ==
    LET dots == {i \in 1..Len(num) : num[i] = "."}
        ip == IF dots = {} THEN num ELSE SubSeq(num, 1, SetMin(dots) - 1)
        fp == IF dots = {} THEN <<>> ELSE SubSeq(num, SetMin(dots) + 1, Len(num))
        f2 == SubSeq(fp \o <<"0","0">>, 1, 2)
    IN  DigitsValue(ip) * 100 + DigitsValue(f2)

extract_time_commitment(s) ==
    LET hits == {i \in 1..Len(s) : TimeMatchAt(s, i) # <<>>}
    IN  IF hits = {} THEN 0
        ELSE LET i == SetMin(hits)
                 m == TimeMatchAt(s, i)
                 val == to_float(SubSeq(s, i, m[1]))
                 unit == UNITS[m[2]]
             IN  IF Contains(unit, <<"w","e","e","k">>) THEN val * 10
                 ELSE IF Contains(unit, <<"m","o","n","t","h">>) THEN val * 40
                 ELSE val

(***************************************************************************)
(* Issuer tables and the issuer resolver                                   *)
(***************************************************************************)
ISSUER_DB ==
    ("udemy" :> 20) @@ ("coursera" :> 30) @@ ("edx" :> 40) @@ ("aws" :> 80) @@
    ("google" :> 75) @@ ("microsoft" :> 75) @@ ("linkedin" :> 25) @@
    ("kaggle" :> 50) @@ ("pluralsight" :> 35) @@ ("datacamp" :> 30) @@
    ("simplilearn" :> 25) @@ ("harvard" :> 95) @@ ("stanford" :> 95) @@
    ("mit" :> 95) @@ ("iit" :> 95) @@ ("oxford" :> 90) @@ ("cambridge" :> 90) @@
    ("yale" :> 90) @@ ("princeton" :> 90) @@ ("columbia" :> 90) @@
    ("caltech" :> 95) @@ ("cornell" :> 90) @@ ("ucla" :> 85) @@ ("nyu" :> 85) @@
    ("geeksforgeeks" :> 20) @@ ("codechef" :> 20) @@ ("hackerrank" :> 20) @@
    ("leetcode" :> 20) @@ ("freecodecamp" :> 15) @@ ("sololearn" :> 15) @@
    ("nptel" :> 40) @@ ("greatlearning" :> 25) @@ ("upgrad" :> 25) @@
    ("coursera-google" :> 75) @@ ("coursera-aws" :> 80) @@
    ("aws-developer" :> 80) @@ ("google-ai" :> 75) @@ ("deepmind" :> 85) @@
    ("ibm" :> 70) @@ ("oracle" :> 65) @@ ("sap" :> 60) @@ ("accenture" :> 50) @@
    ("tcs" :> 50) @@ ("infosys" :> 50) @@ ("wipro" :> 50) @@ ("capgemini" :> 50) @@
    ("nasa" :> 95) @@ ("spacex" :> 95) @@ ("tesla" :> 90) @@ ("facebook" :> 75) @@
    ("meta" :> 75) @@ ("twitter" :> 70) @@ ("apple" :> 80) @@
    ("geeksforgeeks-cs" :> 20)

\* in definition order, the order ISSUER_ALIASES.items() iterates in
ISSUER_ALIASES ==
    << [alias |-> <<"b","m"," ","d","e","v","e","l","o","p","e","r"," ","s","k","i","l","l","s"," ","n","e","t","w","o","r","k">>, name |-> "ibm"],
       [alias |-> <<"i","b","m"," ","s","k","i","l","l","s">>, name |-> "ibm"],
       [alias |-> <<"o","r","a","c","l","e"," ","u","n","i","v","e","r","s","i","t","y">>, name |-> "oracle"],
       [alias |-> <<"g","e","e","k","s","f","o","r","g","e","e","k","s">>, name |-> "geeksforgeeks"],
       [alias |-> <<"g","f","g">>, name |-> "geeksforgeeks"],
       [alias |-> <<"c","o","u","r","s","e","r","a"," ","g","o","o","g","l","e">>, name |-> "coursera-google"],
       [alias |-> <<"c","o","u","r","s","e","r","a"," ","a","w","s">>, name |-> "coursera-aws"] >>

PROJECT_KEYWORDS ==
    << <<"c","a","p","s","t","o","n","e">>, <<"p","r","o","j","e","c","t">>, <<"p","o","r","t","f","o","l","i","o">>, <<"h","a","n","d","s","-","o","n">>, <<"l","a","b">>, <<"p","r","a","c","t","i","c","a","l">> >>

ASSESSMENT_KEYWORDS ==
    << <<"e","x","a","m">>, <<"p","r","o","c","t","o","r","e","d">>, <<"i","n","v","i","g","i","l","a","t">>, <<"g","r","a","d","e","d">>, <<"a","s","s","e","s","s">>,
       <<"f","i","n","a","l"," ","e","x","a","m">>, <<"p","a","s","s","i","n","g">> >>

PREREQ_KEYWORDS ==
    << <<"p","r","e","r","e","q","u","i","s","i","t","e">>, <<"p","r","e","r","e","q">>, <<"p","r","i","o","r"," ","k","n","o","w","l","e","d","g","e">>, <<"e","x","p","e","r","i","e","n","c","e"," ","r","e","q","u","i","r","e","d">>,
       <<"r","e","q","u","i","r","e","m","e","n","t">> >>

\* fuzzy is what rfp.extractOne(text, keys, score_cutoff=30) returns: None or
\* one of the keys.  The library is outside the repository; its answer is an
\* input of the model.
fuzzy_lookup_issuer_mut_fuzzy_first(ocr_text, db, fuzzy) ==
    LET t == lower(ocr_text)
        hits == {n \in DOMAIN ISSUER_ALIASES : Contains(t, ISSUER_ALIASES[n].alias)}
    IN  IF fuzzy # None THEN <<fuzzy, Get(db, fuzzy[1], 25)>>
        ELSE IF hits # {}
        THEN LET name == ISSUER_ALIASES[SetMin(hits)].name
             IN  <<Some(name), Get(db, name, 25)>>
        ELSE <<None, 25>>

fuzzy_lookup_issuer(ocr_text, db, fuzzy) ==
    LET t == lower(ocr_text)
        hits == {n \in DOMAIN ISSUER_ALIASES : Contains(t, ISSUER_ALIASES[n].alias)}
    IN  IF hits # {}
        THEN LET name == ISSUER_ALIASES[SetMin(hits)].name
             IN  <<Some(name), Get(db, name, 25)>>
        ELSE IF fuzzy # None THEN <<fuzzy, Get(db, fuzzy[1], 25)>>
        ELSE <<None, 25>>

(***************************************************************************)
(* Keyword detection and the verification classifier                       *)
(***************************************************************************)
detect_keywords(ocr_text, keywords) == ContainsAny(lower(ocr_text), keywords)

\* truth value of an optional string: None and "" are false
Truthy(opt) == opt # None /\ opt[1] # <<>>

LINK_WORDS == << <<"v","e","r","i","f","y">>, <<"c","e","r","t","i","f","i","c","a","t","e">>, <<"r","e","g","i","s","t","r","y">>, <<"c","r","e","d","e","n","t","i","a","l","s">> >>

guess_verification_method_mut_blockchain_first(ocr_text, link) ==
    LET t == lower(ocr_text)
    IN  IF Contains(t, <<"b","l","o","c","k","c","h","a","i","n">>) THEN "blockchain"
        ELSE IF Contains(t, <<"p","r","o","c","t">>) \/ Contains(t, <<"i","n","v","i","g","i","l">>) THEN "proctored"
        ELSE IF Truthy(link)
        THEN IF ContainsAny(lower(link[1]), LINK_WORDS) THEN "registry" ELSE "simple_link"
        ELSE "none"

guess_verification_method(ocr_text, link) ==
    LET t == lower(ocr_text)
    IN  IF Contains(t, <<"p","r","o","c","t">>) \/ Contains(t, <<"i","n","v","i","g","i","l">>) THEN "proctored"
        ELSE IF Contains(t, <<"b","l","o","c","k","c","h","a","i","n">>) THEN "blockchain"
        ELSE IF Truthy(link)
        THEN IF ContainsAny(lower(link[1]), LINK_WORDS) THEN "registry" ELSE "simple_link"
        ELSE "none"

(***************************************************************************)
(* The feature assembler                                                   *)
(***************************************************************************)
\* issuer_db or ISSUER_DB: None and the empty table fall back to ISSUER_DB
EffectiveDb(db) == IF db = None \/ DOMAIN db[1] = {} THEN ISSUER_DB ELSE db[1]

project_complexity_mut_flat(s, project_present) == IF project_present THEN 40 ELSE 0

project_complexity(s, project_present) ==
    IF project_present /\ (Contains(lower(s), <<"c","a","p","s","t","o","n","e">>) \/ Contains(lower(s), <<"p","o","r","t","f","o","l","i","o">>))
    THEN 70
    ELSE IF project_present THEN 40 ELSE 0

assessment_rigor(s, assessment_present) ==
    IF Contains(lower(s), <<"p","r","o","c","t">>) \/ Contains(lower(s), <<"i","n","v","i","g","i","l">>) THEN 80
    ELSE IF assessment_present THEN 60 ELSE 20

\* lines 215-231: the feature record, from the locals of analyze_certificate
feature_record(s, link, issuer, duration, project_present, assessment_present, prereq_present) ==
    [issuer |-> IF issuer[1] = None THEN "unknown" ELSE issuer[1][1],
     issuer_rep |-> issuer[2],
     duration_hours |-> duration,
     has_project |-> IF project_present THEN 1 ELSE 0,
     project_complexity |-> project_complexity(s, project_present),
     assessment_rigor |-> assessment_rigor(s, assessment_present),
     prerequisites_required |-> IF prereq_present THEN 1 ELSE 0,
     industry_recognition |-> issuer[2],
     verified |-> Truthy(link),
     verification_reason |-> guess_verification_method(s, link),
     tags |-> [project |-> project_present,
               assessment |-> assessment_present,
               prerequisite |-> prereq_present]]

(***************************************************************************)
(* Inputs                                                                  *)
(***************************************************************************)
\* most words of a text
MaxWords == 3

\* how far outside its declared range a numeric signal is taken
OutOfRange == 40

RECURSIVE TextsOf(_, _)
\* the texts of at most n words of vocabulary V, separated by one space
TextsOf(V, n) ==
    IF n = 0 THEN {<<>>}
    ELSE LET shorter == TextsOf(V, n - 1)
         IN  shorter \cup {IF t = <<>> THEN w ELSE t \o <<" ">> \o w : t \in shorter, w \in V}

VerifyVocab ==
    { <<"s","e","e">>, <<"c","o","u","r","s","e">>, <<"c","r","e","d","e","n","t","i","a","l","s">>, <<"P","r","o","c","t","o","r","e","d">>, <<"i","n","v","i","g","i","l","a","t","e","d">>,
      <<"b","l","o","c","k","c","h","a","i","n">>, <<"h","t","t","p",":","/","/","a",".","i","o","/","V","e","r","i","f","y">>, <<"h","t","t","p","s",":","/","/","b",".","c","o","/","x">>, <<"A","B","1","2","C">> }

LinkArgs ==
    { None, Some(<<>>), Some(<<"h","t","t","p",":","/","/","a",".","i","o","/","V","e","r","i","f","y">>), Some(<<"h","t","t","p","s",":","/","/","b",".","c","o","/","x">>),
      Some(<<"c","o","u","r","s","e">>) }

TimeVocab ==
    { <<"3">>, <<"2">>, <<"1","0">>, <<"1",".","5">>, <<"t","o","t","a","l">>, <<"W","e","e","k","s">>, <<"m","o","n","t","h","s">>, <<"h","o","u","r","s">>,
      <<"h">>, <<"h","a","n","d","s","-","o","n">>, <<"c","o","u","r","s","e">> }

IssuerVocab ==
    { <<"I","B","M"," ","S","k","i","l","l","s">>, <<"g","f","g">>, <<"O","r","a","c","l","e"," ","U","n","i","v","e","r","s","i","t","y">>, <<"h","a","r","v","r","d">>,
      <<"i","b","m"," ","d","e","v","e","l","o","p","e","r"," ","s","k","i","l","l","s"," ","n","e","t","w","o","r","k">>, <<"c","o","u","r","s","e","r","a">> }

AnalyzeVocab ==
    { <<"C","a","p","s","t","o","n","e">>, <<"l","a","b">>, <<"p","o","r","t","f","o","l","i","o">>, <<"e","x","a","m">>, <<"P","r","o","c","t","o","r","e","d">>,
      <<"i","n","v","i","g","i","l","a","t","e","d">>, <<"c","o","u","r","s","e">> }

\* a caller's reputation table that lacks the key "ibm"
CustomDb == ("harvard" :> 90) @@ ("coursera" :> 45) @@ ("oracle" :> 60)

\* the answers of the fuzzy matcher that are tried
FuzzyCandidates == {"harvard", "coursera", "ibm", "udemy"}

FuzzyAnswers(db) == {None} \cup {Some(k) : k \in FuzzyCandidates \cap DOMAIN EffectiveDb(db)}

Fields ==
    {"issuer_rep", "duration_hours", "assessment_rigor", "has_project",
     "project_complexity", "prerequisites_required", "industry_recognition", "verified"}

RepValues == {0 - OutOfRange, 25, 100, 100 + OutOfRange}

DurationValues == {0 - 100 * OutOfRange, 0, 3000, 19992, 20000, 20000 + 100 * OutOfRange}

FieldValues(k) ==
    CASE k = "duration_hours" -> DurationValues
      [] k \in {"has_project", "prerequisites_required"} -> {0, 1}
      [] k = "verified" -> BOOLEAN
      [] OTHER -> RepValues

FullRecords ==
    [issuer_rep : RepValues, duration_hours : DurationValues, assessment_rigor : RepValues,
     has_project : {0, 1}, project_complexity : RepValues, prerequisites_required : {0, 1},
     industry_recognition : RepValues, verified : BOOLEAN]

\* complete records, records with one field missing, and the empty record
FeatureRecords ==
    {Restrict(f, D) : f \in FullRecords, D \in {Fields, {}} \cup {Fields \ {k} : k \in Fields}}

(***************************************************************************)
(* State machine: one call of one function on the inputs chosen by Init    *)
(***************************************************************************)
Idle ==
    /\ op = "idle"
    /\ ret = None

InitTier ==
    /\ text = <<>>
    /\ verification_link = None
    /\ features \in FeatureRecords
    /\ issuer_db = None
    /\ best = None
    /\ Idle

InitVerify ==
    /\ text \in TextsOf(VerifyVocab, MaxWords)
    /\ verification_link \in LinkArgs
    /\ features = <<>>
    /\ issuer_db = None
    /\ best = None
    /\ Idle

InitIssuer ==
    /\ text \in TextsOf(IssuerVocab, MaxWords)
    /\ verification_link = None
    /\ features = <<>>
    /\ issuer_db \in {Some(ISSUER_DB), Some(CustomDb)}
    /\ best \in FuzzyAnswers(issuer_db)
    /\ Idle

InitTime ==
    /\ text \in TextsOf(TimeVocab, MaxWords)
    /\ verification_link = None
    /\ features = <<>>
    /\ issuer_db = None
    /\ best = None
    /\ Idle

InitAnalyze ==
    /\ text \in TextsOf(AnalyzeVocab, MaxWords)
    /\ verification_link = None
    /\ features = <<>>
    /\ issuer_db \in {None, Some(CustomDb)}
    /\ best \in FuzzyAnswers(issuer_db)
    /\ Idle

\* the call `name` returns `value`
Return(name, value) ==
    /\ op = "idle"
    /\ op' = name
    /\ ret' = value
    /\ UNCHANGED <<text, verification_link, issuer_db, best>>

FindVerificationLink ==
    /\ Return("find_verification_link", find_verification_link(text))
    /\ UNCHANGED features

FuzzyLookupIssuer ==
    /\ issuer_db # None
    /\ Return("fuzzy_lookup_issuer", fuzzy_lookup_issuer(text, issuer_db[1], best))
    /\ UNCHANGED features

ExtractTimeCommitment ==
    /\ Return("extract_time_commitment", extract_time_commitment(text))
    /\ UNCHANGED features

DetectKeywords ==
    \E kw \in {PROJECT_KEYWORDS, ASSESSMENT_KEYWORDS, PREREQ_KEYWORDS} :
        /\ Return("detect_keywords", <<kw, detect_keywords(text, kw)>>)
        /\ UNCHANGED features

GuessVerificationMethod ==
    /\ Return("guess_verification_method", guess_verification_method(text, verification_link))
    /\ UNCHANGED features

ComputeCertificateTier ==
    /\ Return("compute_certificate_tier", compute_certificate_tier(features, issuer_db))
    /\ UNCHANGED features

\* lines 196-244: each local is computed once, the record is built, scored and
\* returned; the skill tags (read from skills_db.json), the file name and the
\* text snippet of the output are left out
AnalyzeCertificate ==
    /\ \E link \in {find_verification_link(text)} :
       \E issuer \in {fuzzy_lookup_issuer(text, EffectiveDb(issuer_db), best)} :
       \E duration \in {extract_time_commitment(text)} :
       \E project_present \in {detect_keywords(text, PROJECT_KEYWORDS)} :
       \E assessment_present \in {detect_keywords(text, ASSESSMENT_KEYWORDS)} :
       \E prereq_present \in {detect_keywords(text, PREREQ_KEYWORDS)} :
           features' = feature_record(text, link, issuer, duration, project_present,
                                      assessment_present, prereq_present)
    /\ Return("analyze_certificate",
              [issuer |-> features'.issuer,
               features |-> features',
               result |-> compute_certificate_tier(features', issuer_db)])

NextTier == ComputeCertificateTier

NextVerify == FindVerificationLink \/ GuessVerificationMethod \/ AnalyzeCertificate

NextIssuer == FuzzyLookupIssuer

NextTime == ExtractTimeCommitment

NextAnalyze == DetectKeywords \/ AnalyzeCertificate

SpecTier == InitTier /\ [][NextTier]_vars

SpecVerify == InitVerify /\ [][NextVerify]_vars

SpecIssuer == InitIssuer /\ [][NextIssuer]_vars

SpecTime == InitTime /\ [][NextTime]_vars

SpecAnalyze == InitAnalyze /\ [][NextAnalyze]_vars

(***************************************************************************)
(* Properties of the tier/score composer (SpecTier)                        *)
(***************************************************************************)
TierCall == op = "compute_certificate_tier"

\* C1: for every feature record, with fields missing or numeric fields
\* negative or above 100, the returned score is within [0, 100] (here in
\* hundredths) and the returned tier is one of 1, 2, 3, 4.
C1_ScoreAndTierInRange ==
    TierCall => ret.score \in 0..(100 * 100) /\ ret.tier \in 1..4

\* a record without assessment_rigor, with issuer_rep above 100 and a negative
\* duration, whose composite is cut down to 100
C1_Witness ==
    /\ TierCall
    /\ DOMAIN features = Fields \ {"assessment_rigor"}
    /\ features.issuer_rep > 100
    /\ features.duration_hours < 0
    /\ ret.score = 100 * 100

\* the tier the fixed thresholds assign to a returned score (in hundredths)
TierOfReturned(score) ==
    IF score >= 8000 THEN 1 ELSE IF score >= 6000 THEN 2 ELSE IF score >= 4000 THEN 3 ELSE 4

\* C2: in every result the tier is the one the thresholds 80 / 60 / 40 assign
\* to the returned score, the value rounded to two decimals.
C2_TierMatchesReturnedScore ==
    TierCall => ret.tier = TierOfReturned(ret.score)

\* the record with every numeric signal it holds clamped to its declared range
ClampSignals(f) ==
    [k \in DOMAIN f |->
        IF k \in {"issuer_rep", "assessment_rigor", "project_complexity", "industry_recognition"}
        THEN IF f[k] < 0 THEN 0 ELSE IF f[k] > 100 THEN 100 ELSE f[k]
        ELSE IF k = "duration_hours" THEN (IF f[k] < 0 THEN 0 ELSE f[k])
        ELSE f[k]]

\* C3: the result equals the result for the same record with issuer_rep,
\* assessment_rigor, project_complexity and industry_recognition clamped to
\* [0, 100] and duration_hours clamped to >= 0.
C3_SignalsClampedFirst ==
    TierCall => ret = compute_certificate_tier(ClampSignals(features), issuer_db)

MonotoneSignals ==
    {"issuer_rep", "assessment_rigor", "project_complexity", "duration_hours",
     "industry_recognition"}

\* C4: the score never decreases, and the tier number never increases, when
\* one of issuer_rep, assessment_rigor, project_complexity (with has_project
\* set), duration_hours, industry_recognition is raised or verified goes from
\* false to true, all other fields held fixed.
C4_Monotone ==
    TierCall =>
        /\ \A k \in MonotoneSignals \cap DOMAIN features :
             (k = "project_complexity" => Get(features, "has_project", 0) # 0) =>
                 \A v \in FieldValues(k) \cup {features[k] + 1} :
                     v >= features[k] =>
                         LET r == compute_certificate_tier(With(features, k, v), issuer_db)
                         IN  r.score >= ret.score /\ r.tier <= ret.tier
        /\ ~Get(features, "verified", FALSE) =>
             LET r == compute_certificate_tier(With(features, "verified", TRUE), issuer_db)
             IN  r.score >= ret.score /\ r.tier <= ret.tier

\* an unverified record that verification lifts into a better tier
C4_Witness ==
    /\ TierCall
    /\ DOMAIN features = Fields
    /\ ~features.verified
    /\ compute_certificate_tier(With(features, "verified", TRUE), issuer_db).tier < ret.tier
    /\ \E v \in RepValues :
         /\ v > features.issuer_rep
         /\ compute_certificate_tier(With(features, "issuer_rep", v), issuer_db).score > ret.score

\* C5: two records that differ only in prerequisites_required (set, cleared or
\* left out) get the same score and the same tier.
C5_PrereqInert ==
    TierCall =>
        /\ \A p \in {0, 1} :
             compute_certificate_tier(With(features, "prerequisites_required", p), issuer_db) = ret
        /\ compute_certificate_tier(
               Restrict(features, DOMAIN features \ {"prerequisites_required"}), issuer_db) = ret

\* a record with prerequisites_required set whose score is not at a clamp
C5_Witness ==
    /\ TierCall
    /\ "prerequisites_required" \in DOMAIN features
    /\ features.prerequisites_required = 1
    /\ ret.score > 0
    /\ ret.score < 100 * 100

(***************************************************************************)
(* Properties of the verification classifier (SpecVerify)                  *)
(***************************************************************************)
HasProctoring(s) == Contains(lower(s), <<"p","r","o","c","t">>) \/ Contains(lower(s), <<"i","n","v","i","g","i","l">>)

HasBlockchain(s) == Contains(lower(s), <<"b","l","o","c","k","c","h","a","i","n">>)

\* a link is present: it is neither None nor the empty string
LinkPresent(link) == link # None /\ Len(link[1]) > 0

IsRegistryLink(l) == \E n \in DOMAIN LINK_WORDS : Contains(lower(l), LINK_WORDS[n])

\* C6: guess_verification_method answers 'proctored' if the text contains
\* 'proct' or 'invigil', whatever the link and whether or not 'blockchain'
\* occurs; else 'blockchain' if the text contains it, whatever the link; else
\* with a link 'registry' if the lowercased link holds one of the four link
\* words and 'simple_link' if not; else 'none'.
C6_FirstMatchOrder ==
    op = "guess_verification_method" =>
        /\ HasProctoring(text) => ret = "proctored"
        /\ ~HasProctoring(text) /\ HasBlockchain(text) => ret = "blockchain"
        /\ ~HasProctoring(text) /\ ~HasBlockchain(text) /\ LinkPresent(verification_link) =>
             ret = (IF IsRegistryLink(verification_link[1]) THEN "registry" ELSE "simple_link")
        /\ ~HasProctoring(text) /\ ~HasBlockchain(text) /\ ~LinkPresent(verification_link) =>
             ret = "none"

\* a text with both a proctoring word and 'blockchain', and a registry link
C6_Witness ==
    /\ op = "guess_verification_method"
    /\ HasProctoring(text)
    /\ HasBlockchain(text)
    /\ LinkPresent(verification_link)
    /\ IsRegistryLink(verification_link[1])
    /\ ret = "proctored"

\* the positions where an HTTP(S) URL starts
UrlStarts(s) == {i \in 1..Len(s) : UrlLen(s, i) > 0}

\* a bare code of 5 to 12 uppercase letters or digits starts at position i
UpperCodeAt(s, i) ==
    /\ CodeLen(s, i) > 0
    /\ \A j \in i..(i + CodeLen(s, i) - 1) : s[j] \in UpperSet \cup DigitSet

HasUpperCode(s) == \E i \in 1..Len(s) : UpperCodeAt(s, i)

\* C7: for a text without 'proct', 'invigil', 'blockchain' that holds exactly
\* one HTTP(S) URL (and no bare code), whatever ordinary words surround the
\* URL, analyze_certificate gives verification_reason 'registry' if the URL
\* contains 'verify' and 'simple_link' if the URL holds none of the four link
\* words; with no link and no such keywords it gives 'none' and verified false.
C7_ReasonFollowsTheUrl ==
    (op = "analyze_certificate" /\ ~HasProctoring(text) /\ ~HasBlockchain(text)
        /\ ~HasUpperCode(text)) =>
        LET starts == UrlStarts(text)
            i == CHOOSE j \in starts : TRUE
            url == SubSeq(text, i, i + UrlLen(text, i) - 1)
        IN  /\ (Cardinality(starts) = 1 /\ Contains(lower(url), <<"v","e","r","i","f","y">>)) =>
                 ret.features.verification_reason = "registry"
            /\ (Cardinality(starts) = 1 /\ ~IsRegistryLink(url)) =>
                 ret.features.verification_reason = "simple_link"
            /\ starts = {} =>
                 (ret.features.verification_reason = "none" /\ ~ret.features.verified)

(***************************************************************************)
(* Properties of the issuer resolver (SpecIssuer)                          *)
(***************************************************************************)
AliasIn(s, n) == Contains(lower(s), ISSUER_ALIASES[n].alias)

\* C8: whenever the lowercased text contains an alias, the result is the
\* canonical key of the first such alias in table order with that key's
\* reputation in the table given (25 if the key is absent), whatever the fuzzy
\* matcher answers.
C8_AliasWins ==
    op = "fuzzy_lookup_issuer" =>
        \A n \in DOMAIN ISSUER_ALIASES :
            (AliasIn(text, n) /\ \A m \in 1..(n - 1) : ~AliasIn(text, m)) =>
                ret = <<Some(ISSUER_ALIASES[n].name),
                        IF ISSUER_ALIASES[n].name \in DOMAIN issuer_db[1]
                        THEN issuer_db[1][ISSUER_ALIASES[n].name] ELSE 25>>

\* a text with two aliases of different keys, the fuzzy matcher answering a
\* third key, and a table without the resolved key
C8_Witness ==
    /\ op = "fuzzy_lookup_issuer"
    /\ AliasIn(text, 2)
    /\ AliasIn(text, 5)
    /\ best = Some("harvard")
    /\ "ibm" \notin DOMAIN issuer_db[1]
    /\ ret = <<Some("ibm"), 25>>

(***************************************************************************)
(* Properties of the time-commitment parser (SpecTime)                     *)
(***************************************************************************)
\* the words of a text: the maximal runs of non-space characters, in order
WordStarts(s) == {i \in 1..Len(s) : ~IsSpace(s[i]) /\ (i = 1 \/ IsSpace(s[i - 1]))}

WordFrom(s, i) == SubSeq(s, i, i + RunLenNot(s, i, SpaceSet) - 1)

\* a number: digits, then optionally a point and more digits
IsNumberWord(w) ==
    /\ Len(w) > 0
    /\ IsDigit(w[1])
    /\ \A i \in 1..Len(w) : IsDigit(w[i]) \/ w[i] = "."
    /\ Cardinality({i \in 1..Len(w) : w[i] = "."}) <= 1

HourUnits == { <<"h">>, <<"h","r","s">>, <<"h","o","u","r","s">> }

WeekUnits == { <<"w","e","e","k">>, <<"w","e","e","k","s">> }

MonthUnits == { <<"m","o","n","t","h">>, <<"m","o","n","t","h","s">> }

IsUnitWord(w) == lower(w) \in HourUnits \cup WeekUnits \cup MonthUnits

\* the start of the word after the word that starts at i, 0 if there is none
NextWord(s, i) ==
    LET later == {j \in WordStarts(s) : j > i}
    IN  IF later = {} THEN 0 ELSE SetMin(later)

\* the start of the unit word of the duration phrase whose number is the word
\* at i (a number, an optional 'total', then a unit), 0 if there is none
PhraseUnit(s, i) ==
    LET a == NextWord(s, i)
        b == IF a = 0 THEN 0 ELSE NextWord(s, a)
    IN  IF ~IsNumberWord(WordFrom(s, i)) \/ a = 0 THEN 0
        ELSE IF IsUnitWord(WordFrom(s, a)) THEN a
        ELSE IF lower(WordFrom(s, a)) = <<"t","o","t","a","l">> /\ b # 0 /\ IsUnitWord(WordFrom(s, b)) THEN b
        ELSE 0

\* the hours (in hundredths) of the first duration phrase, 0 without one
FirstPhraseHours(s) ==
    LET phrases == {i \in WordStarts(s) : PhraseUnit(s, i) # 0}
    IN  IF phrases = {} THEN 0
        ELSE LET i == SetMin(phrases)
                 n == to_float(WordFrom(s, i))
                 u == lower(WordFrom(s, PhraseUnit(s, i)))
             IN  IF u \in WeekUnits THEN n * 10 ELSE IF u \in MonthUnits THEN n * 40 ELSE n

\* C9: extract_time_commitment returns the hours of the first duration phrase
\* of the text only (the number times 10 for week/weeks, times 40 for
\* month/months, unchanged for h/hrs/hours), and 0 for a text without a
\* duration phrase.
C9_FirstDurationPhrase ==
    op = "extract_time_commitment" => ret = FirstPhraseHours(text)

(***************************************************************************)
(* Properties of the feature assembler (SpecAnalyze)                       *)
(***************************************************************************)
\* C10: in every record analyze_certificate builds, project_complexity is 70
\* if a project keyword was detected and the text contains 'capstone' or
\* 'portfolio', 40 if one was detected otherwise and 0 if none was (so it is 0
\* exactly when has_project is 0); assessment_rigor is 80 if the text contains
\* 'proct' or 'invigil', else 60 if an assessment keyword was detected, else
\* 20; and industry_recognition equals issuer_rep.
C10_DerivedSignals ==
    op = "analyze_certificate" =>
        LET f == ret.features
            showcase == Contains(lower(text), <<"c","a","p","s","t","o","n","e">>) \/ Contains(lower(text), <<"p","o","r","t","f","o","l","i","o">>)
        IN  /\ f.tags.project /\ showcase => f.project_complexity = 70
            /\ f.tags.project /\ ~showcase => f.project_complexity = 40
            /\ ~f.tags.project => f.project_complexity = 0
            /\ f.project_complexity = 0 <=> f.has_project = 0
            /\ f.tags.project <=> ContainsAny(lower(text), PROJECT_KEYWORDS)
            /\ f.tags.assessment <=> ContainsAny(lower(text), ASSESSMENT_KEYWORDS)
            /\ HasProctoring(text) => f.assessment_rigor = 80
            /\ ~HasProctoring(text) /\ f.tags.assessment => f.assessment_rigor = 60
            /\ ~HasProctoring(text) /\ ~f.tags.assessment => f.assessment_rigor = 20
            /\ f.industry_recognition = f.issuer_rep

\* a capstone text with invigilation, resolved to an issuer of the table
C10_Witness ==
    /\ op = "analyze_certificate"
    /\ Contains(lower(text), <<"c","a","p","s","t","o","n","e">>)
    /\ Contains(lower(text), <<"i","n","v","i","g","i","l">>)
    /\ ret.features.project_complexity = 70
    /\ ret.features.assessment_rigor = 80
    /\ ret.features.issuer = "coursera"
    /\ ret.features.industry_recognition = 45

====
